---- MODULE Spec2Model ----
(***************************************************************************)
(* Reef1D, the one-dimensional analytical hydrodynamic model               *)
(* (src/core/hydrodynamics/reef_1d.py), and the HydrodynamicProtocol it    *)
(* is bound to (src/core/hydrodynamics/hydrodynamic_protocol.py).          *)
(*                                                                         *)
(* Python values: None is the record None, any other value v of an        *)
(* Optional field or return is Some(v).  A call either returns, Ret(v),    *)
(* or raises, Raise(e).  Floating point numbers are fixed point numbers    *)
(* of two decimals (Fix(1) is 1.0) together with the IEEE values NaN and   *)
(* +/-Inf, see the section on floats.                                      *)
(***************************************************************************)
EXTENDS Integers, Sequences, FiniteSets, TLC

VARIABLES
    bath,             \* Reef1D.bath: None or Some(sequence of depths at rest)
    Hs,               \* Reef1D.Hs: None or Some(significant wave height)
    Tp,               \* Reef1D.Tp: None or Some(peak wave period)
    dx,               \* Reef1D.dx: None or Some(node spacing)
    water_depth,      \* Reef1D.water_depth: None or Some(array)
    config_file,      \* Reef1D.config_file: None or Some(path)
    definition_file,  \* Reef1D.definition_file: None or Some(path)
    nInitiate,        \* history: number of initiate() calls made so far
    nUpdate,          \* history: number of update() calls made so far
    nFinalise,        \* history: number of finalise() calls made so far
    last              \* history: the last call made on the model, and its outcome

fields == <<bath, Hs, Tp, dx, water_depth, config_file, definition_file>>
counters == <<nInitiate, nUpdate, nFinalise>>
vars == <<bath, Hs, Tp, dx, water_depth, config_file, definition_file,
          nInitiate, nUpdate, nFinalise, last>>

----------------------------------------------------------------------------
(* Bounds of the model.                                                    *)

\* longest bathymetry profile (number of nodes)
MaxNodes == 2
\* most calls of each lifecycle method in one run
MaxCalls == 2

----------------------------------------------------------------------------
(* Python values.                                                          *)

None == [k |-> "None"]
Some(x) == [k |-> "Some", v |-> x]
Ret(x) == [k |-> "ret", v |-> x]
Raise(e) == [k |-> "raise", v |-> e]

\* n as a fixed point number of two decimals
Fix(n) == 100 * n

\* the receivers of a call: the analytical model, and a backend that
\* subclasses the protocol and supplies no member of its own
Receivers == {"Reef1D", "HydrodynamicProtocol"}

\* a call record: who was called, what, with which arguments, what came back,
\* and whether the same call with the same arguments came right before it
Call(recv, op, args, out, rep) ==
    [recv |-> recv, op |-> op, args |-> args, out |-> out, rep |-> rep]
NoCall == Call("Reef1D", "none", <<>>, Ret(None), FALSE)

\* whether the call (op, args) on recv repeats the last call
Repeats(recv, op, args) == last.recv = recv /\ last.op = op /\ last.args = args

----------------------------------------------------------------------------
(* Input domains.                                                          *)

\* depths at rest, in metres: a dry node above the water line, a node at
\* the water line, a wet node
Depths == {Fix(-1), Fix(0), Fix(3)}
Profiles == UNION {[1..n -> Depths] : n \in 1..MaxNodes}
Heights == {Fix(1) + 50}
Periods == {Fix(4), Fix(8)}
Spacings == {50, Fix(1), Fix(2)}
Paths == {"reef.mdu"}
Corals == {"coral_a", "coral_b"}

Opt(S) == {None} \cup {Some(x) : x \in S}

----------------------------------------------------------------------------
(* Floats: a finite number is Num(x), x in hundredths; NaN and +/-Inf behave *)
(* as IEEE 754 has them (numpy's default error state warns on a division   *)
(* by zero or an invalid operation, it does not raise).  Signed zeros are  *)
(* not told apart: 0/0 is NaN for either sign.                             *)

Num(x) == [k |-> "num", v |-> x]
NaN == [k |-> "nan", v |-> 0]
Inf(s) == [k |-> "inf", v |-> s]

Abs(x) == IF x < 0 THEN -x ELSE x
Sgn(x) == IF x < 0 THEN -1 ELSE IF x > 0 THEN 1 ELSE 0
\* integer division rounding towards zero
Quot(a, b) == Sgn(a) * Sgn(b) * (Abs(a) \div Abs(b))

FAdd(a, b) ==
    IF a.k = "nan" \/ b.k = "nan" THEN NaN
    ELSE IF a.k = "inf" /\ b.k = "inf" THEN (IF a.v = b.v THEN a ELSE NaN)
    ELSE IF a.k = "inf" THEN a
    ELSE IF b.k = "inf" THEN b
    ELSE Num(a.v + b.v)

FNeg(a) == IF a.k = "nan" THEN NaN ELSE [k |-> a.k, v |-> -a.v]

FSub(a, b) == FAdd(a, FNeg(b))

FMul(a, b) ==
    IF a.k = "nan" \/ b.k = "nan" THEN NaN
    ELSE IF a.k = "inf" \/ b.k = "inf"
         THEN (IF a.v = 0 \/ b.v = 0 THEN NaN ELSE Inf(Sgn(a.v) * Sgn(b.v)))
    ELSE Num(Quot(a.v * b.v, Fix(1)))

FDiv(a, b) ==
    IF a.k = "nan" \/ b.k = "nan" THEN NaN
    ELSE IF a.k = "inf"
         THEN (IF b.k = "inf" THEN NaN
               ELSE Inf(IF b.v < 0 THEN -a.v ELSE a.v))
    ELSE IF b.k = "inf" THEN Num(0)
    ELSE IF b.v = 0
         THEN (IF a.v = 0 THEN NaN ELSE Inf(Sgn(a.v)))
    ELSE Num(Quot(a.v * Fix(1), b.v))

\* np.tanh: clamped rational approximation x(27 + x^2) / (27 + 9 x^2) on
\* [-3, 3], +/-1 outside
tanh(a) ==
    IF a.k = "nan" THEN NaN
    ELSE IF a.k = "inf" THEN Num(a.v * Fix(1))
    ELSE IF a.v >= Fix(3) THEN Num(Fix(1))
    ELSE IF a.v <= Fix(-3) THEN Num(Fix(-1))
    ELSE LET x2 == FMul(a, a)
         IN  FDiv(FMul(a, FAdd(Num(Fix(27)), x2)),
                  FAdd(Num(Fix(27)), FMul(Num(Fix(9)), x2)))

\* np.sinh: the series x + x^3/6 + x^5/120 + x^7/5040
sinh(a) ==
    IF a.k # "num" THEN a
    ELSE LET x2 == FMul(a, a)
             x3 == FMul(x2, a)
             x5 == FMul(x3, x2)
             x7 == FMul(x5, x2)
         IN  FAdd(FAdd(a, FDiv(x3, Num(Fix(6)))),
                  FAdd(FDiv(x5, Num(Fix(120))), FDiv(x7, Num(Fix(5040)))))

IsFinite(a) == a.k = "num"

----------------------------------------------------------------------------
(* Derived properties of Reef1D: the model domain.                         *)

\* a node count one short of the profile
space_one_short == IF bath = None THEN None ELSE Some(Len(bath.v) - 1)

\* Reef1D.space
space == IF bath = None THEN None ELSE Some(Len(bath.v))

\* np.arange(start, stop, step) for step > 0: ceil((stop - start) / step)
\* entries start, start + step, ...
arange(start, stop, step) ==
    LET n == IF stop <= start THEN 0
             ELSE (stop - start + step - 1) \div step
    IN  [i \in 1..n |-> start + (i - 1) * step]

\* Reef1D.x_coordinates
x_coordinates ==
    IF space = None \/ dx = None THEN None
    ELSE Some(arange(0, Fix(space.v), dx.v))

\* Reef1D.y_coordinates
y_coordinates == <<0>>

\* a pairing that stops one position early
xy_coordinates_short ==
    IF x_coordinates = None THEN None
    ELSE Some([i \in 1..(Len(x_coordinates.v) - 1) |->
                  <<x_coordinates.v[i], y_coordinates[1]>>])

\* Reef1D.xy_coordinates
xy_coordinates ==
    IF x_coordinates = None THEN None
    ELSE Some([i \in 1..Len(x_coordinates.v) |->
                  <<x_coordinates.v[i], y_coordinates[1]>>])

\* the members the protocol declares and Reef1D holds as plain fields
FileMembers == {"config_file", "definition_file", "water_depth"}

\* reading a field of Reef1D returns what the field holds
Reef1D_field(member) ==
    CASE member = "config_file" -> Ret(config_file)
      [] member = "definition_file" -> Ret(definition_file)
      [] member = "water_depth" -> Ret(water_depth)

\* the protocol's own body of a member
Protocol_member(member) == Raise("NotImplementedError")

----------------------------------------------------------------------------
(* Derived properties of Reef1D: wave mechanics.                           *)

\* Reef1D.water_level
water_level == 0

\* 9.81
grav_acc == 981
\* 2 * np.pi
two_pi == 628

\* Reef1D.per_wav
per_wav == Tp

\* Reef1D.depth: bath + water_level; None + 0 is a TypeError
depth ==
    IF bath = None THEN Raise("TypeError")
    ELSE Ret([i \in 1..Len(bath.v) |-> bath.v[i] + water_level])

\* Reef1D.dispersion
dispersion(wave_length, wave_period, h, g) ==
    FSub(wave_length,
         FMul(FDiv(FMul(g, FMul(wave_period, wave_period)), Num(two_pi)),
              tanh(FDiv(FMul(Num(two_pi), h), wave_length))))

\* bisection on (lo, hi], dispersion being negative at lo and not at hi
RECURSIVE Bisect(_, _, _, _, _)
Bisect(lo, hi, wave_period, h, g) ==
    IF hi - lo <= 1 THEN hi
    ELSE LET mid == (lo + hi) \div 2
         IN  IF dispersion(Num(mid), wave_period, h, g).v >= 0
             THEN Bisect(lo, mid, wave_period, h, g)
             ELSE Bisect(mid, hi, wave_period, h, g)

\* scipy's fsolve(self.dispersion, L0, args=(per_wav, h, 9.81)): the positive
\* root of the dispersion relation below the first guess L0
fsolve(L0, wave_period, h, g) == Num(Bisect(1, L0.v, wave_period, h, g))

\* Reef1D.wave_length
wave_length ==
    IF per_wav = None \/ depth.k = "raise" THEN Raise("TypeError")
    ELSE LET T == Num(per_wav.v)
             L0 == FMul(Num(grav_acc), FMul(T, T))
         IN  Ret([i \in 1..Len(depth.v) |->
                     IF depth.v[i] > 0
                     THEN fsolve(L0, T, Num(depth.v[i]), Num(grav_acc))
                     ELSE Num(0)])

\* Reef1D.wave_number
wave_number ==
    IF wave_length.k = "raise" THEN wave_length
    ELSE LET L == wave_length.v
         IN  Ret([i \in 1..Len(L) |->
                     IF L[i].k = "num" /\ L[i].v > 0
                     THEN FDiv(Num(two_pi), L[i])
                     ELSE Num(0)])

\* Reef1D.wave_celerity
wave_celerity ==
    IF wave_length.k = "raise" THEN wave_length
    ELSE LET L == wave_length.v
         IN  Ret([i \in 1..Len(L) |-> FDiv(L[i], Num(per_wav.v))])

\* Reef1D.group_celerity
group_celerity ==
    IF wave_number.k = "raise" THEN wave_number
    ELSE LET kk == wave_number.v
             h == depth.v
             c == wave_celerity.v
             n(i) == FMul(Num(50),
                          FAdd(Num(Fix(1)),
                               FDiv(FMul(Num(Fix(2)), FMul(kk[i], Num(h[i]))),
                                    sinh(FMul(kk[i], Num(h[i]))))))
         IN  Ret([i \in 1..Len(kk) |-> FMul(n(i), c[i])])

WaveMembers == {"depth", "wave_length", "wave_number", "wave_celerity",
                "group_celerity"}

Reef1D_wave(member) ==
    CASE member = "depth" -> depth
      [] member = "wave_length" -> wave_length
      [] member = "wave_number" -> wave_number
      [] member = "wave_celerity" -> wave_celerity
      [] member = "group_celerity" -> group_celerity

----------------------------------------------------------------------------
(* Lifecycle methods of Reef1D.                                            *)

\* Reef1D.initiate: raises NotImplementedError, whatever the state
initiate == Raise("NotImplementedError")

\* a result that depends on how many update calls were made before
update_counted(coral, storm) ==
    IF storm THEN Ret(<<Some(nUpdate), None>>) ELSE Ret(<<Some(nUpdate), None, None>>)

\* a result of the calm shape whatever the storm flag
update_calm_only(coral, storm) == Ret(<<None, None, None>>)

\* Reef1D.update: the placeholder forcing tuple, by storm flag
update(coral, storm) ==
    IF storm THEN Ret(<<None, None>>) ELSE Ret(<<None, None, None>>)

\* Reef1D.finalise: raises NotImplementedError, whatever the state
finalise == Raise("NotImplementedError")

Initiate ==
    /\ nInitiate < MaxCalls
    /\ nInitiate' = nInitiate + 1
    /\ last' = Call("Reef1D", "initiate", <<>>, initiate, Repeats("Reef1D", "initiate", <<>>))
    /\ UNCHANGED <<fields, nUpdate, nFinalise>>

Update(coral, storm) ==
    /\ nUpdate < MaxCalls
    /\ nUpdate' = nUpdate + 1
    /\ last' = Call("Reef1D", "update", <<coral, storm>>, update(coral, storm),
                    Repeats("Reef1D", "update", <<coral, storm>>))
    /\ UNCHANGED <<fields, nInitiate, nFinalise>>

Finalise ==
    /\ nFinalise < MaxCalls
    /\ nFinalise' = nFinalise + 1
    /\ last' = Call("Reef1D", "finalise", <<>>, finalise, Repeats("Reef1D", "finalise", <<>>))
    /\ UNCHANGED <<fields, nInitiate, nUpdate>>

\* assignment to the field Hs
SetHs(h) ==
    /\ Hs # h
    /\ Hs' = h
    /\ last' = Call("Reef1D", "set_Hs", <<>>, Ret(None), FALSE)
    /\ UNCHANGED <<bath, Tp, dx, water_depth, config_file, definition_file, counters>>

\* assignment to the field Tp
SetTp(t) ==
    /\ Tp # t
    /\ Tp' = t
    /\ last' = Call("Reef1D", "set_Tp", <<>>, Ret(None), FALSE)
    /\ UNCHANGED <<bath, Hs, dx, water_depth, config_file, definition_file, counters>>

\* Reef1D(bath=..., Hs=..., Tp=...): every field not given is None
Init ==
    /\ bath \in Opt(Profiles)
    /\ Hs \in Opt(Heights)
    /\ Tp \in Opt(Periods)
    /\ dx = None
    /\ water_depth = None
    /\ config_file = None
    /\ definition_file = None
    /\ nInitiate = 0
    /\ nUpdate = 0
    /\ nFinalise = 0
    /\ last = NoCall

Next ==
    \/ Initiate
    \/ \E c \in Corals, s \in BOOLEAN : Update(c, s)
    \/ Finalise
    \/ \E h \in Opt(Heights) : SetHs(h)
    \/ \E t \in Opt(Periods) : SetTp(t)

Spec == Init /\ [][Next]_vars

----------------------------------------------------------------------------
(* Reading the derived properties and the fields, assigning bath.          *)

unchanged_but_last == <<fields, counters>>

GetSpace ==
    /\ last' = Call("Reef1D", "space", <<>>, Ret(space),
                    Repeats("Reef1D", "space", <<>>))
    /\ UNCHANGED unchanged_but_last

GetXCoordinates ==
    /\ last' = Call("Reef1D", "x_coordinates", <<>>, Ret(x_coordinates),
                    Repeats("Reef1D", "x_coordinates", <<>>))
    /\ UNCHANGED unchanged_but_last

GetYCoordinates ==
    /\ last' = Call("Reef1D", "y_coordinates", <<>>, Ret(Some(y_coordinates)),
                    Repeats("Reef1D", "y_coordinates", <<>>))
    /\ UNCHANGED unchanged_but_last

GetXYCoordinates ==
    /\ last' = Call("Reef1D", "xy_coordinates", <<>>, Ret(xy_coordinates),
                    Repeats("Reef1D", "xy_coordinates", <<>>))
    /\ UNCHANGED unchanged_but_last

\* config_file, definition_file or water_depth read on a Reef1D
GetField(member) ==
    /\ last' = Call("Reef1D", member, <<>>, Reef1D_field(member),
                    Repeats("Reef1D", member, <<>>))
    /\ UNCHANGED unchanged_but_last

\* the same members read on a backend that subclasses the protocol and
\* supplies none of them
GetProtocolMember(member) ==
    /\ last' = Call("HydrodynamicProtocol", member, <<>>, Protocol_member(member),
                    Repeats("HydrodynamicProtocol", member, <<>>))
    /\ UNCHANGED unchanged_but_last

\* depth, wave_length, wave_number, wave_celerity or group_celerity read
GetWave(member) ==
    /\ last' = Call("Reef1D", member, <<>>, Reef1D_wave(member),
                    Repeats("Reef1D", member, <<>>))
    /\ UNCHANGED unchanged_but_last

\* assignment to the field bath; the call record keeps the value replaced
SetBath(b) ==
    /\ bath # b
    /\ bath' = b
    /\ last' = Call("Reef1D", "set_bath", <<bath>>, Ret(None), FALSE)
    /\ UNCHANGED <<Hs, Tp, dx, water_depth, config_file, definition_file, counters>>

\* Reef1D(bath=..., dx=..., water_depth=..., config_file=..., definition_file=...)
InitDomain ==
    /\ bath \in Opt(Profiles)
    /\ Hs = None
    /\ Tp = None
    /\ dx \in Opt(Spacings)
    /\ water_depth \in Opt({<<Fix(3)>>})
    /\ config_file \in Opt(Paths)
    /\ definition_file \in Opt(Paths)
    /\ nInitiate = 0
    /\ nUpdate = 0
    /\ nFinalise = 0
    /\ last = NoCall

NextDomain ==
    \/ GetSpace
    \/ GetXCoordinates
    \/ GetYCoordinates
    \/ GetXYCoordinates
    \/ \E m \in FileMembers : GetField(m)
    \/ \E m \in FileMembers : GetProtocolMember(m)
    \/ \E b \in Opt(Profiles) : SetBath(b)

SpecDomain == InitDomain /\ [][NextDomain]_vars

\* Reef1D(bath=..., Tp=...)
InitWave ==
    /\ bath \in Opt(Profiles)
    /\ Hs = None
    /\ Tp \in Opt(Periods)
    /\ dx = None
    /\ water_depth = None
    /\ config_file = None
    /\ definition_file = None
    /\ nInitiate = 0
    /\ nUpdate = 0
    /\ nFinalise = 0
    /\ last = NoCall

NextWave ==
    \/ \E m \in WaveMembers : GetWave(m)
    \/ \E b \in Opt(Profiles) : SetBath(b)

SpecWave == InitWave /\ [][NextWave]_vars

----------------------------------------------------------------------------
(* The lifecycle of Reef1D (Spec).                                         *)

IsUpdate == last.recv = "Reef1D" /\ last.op = "update"
Unconfigured == bath = None \/ Hs = None \/ Tp = None

\* C1: an update call made before any initiate call, or after a finalise
\* call, fails with an invalid-state error instead of returning a tuple.
C1_UpdateOutOfOrderFails ==
    (IsUpdate /\ (nInitiate = 0 \/ nFinalise > 0))
        => last.out = Raise("InvalidStateError")

\* C2: the first initiate call succeeds and every later one fails with an
\* invalid-state error; after an initiate, the first finalise call succeeds
\* and every later one fails with an invalid-state error.
C2_InitiateFinaliseOnce ==
    /\ last.op = "initiate" =>
          IF nInitiate = 1 THEN last.out.k = "ret"
          ELSE last.out = Raise("InvalidStateError")
    /\ (last.op = "finalise" /\ nInitiate >= 1) =>
          IF nFinalise = 1 THEN last.out.k = "ret"
          ELSE last.out = Raise("InvalidStateError")

\* C5: update returns a tuple of two entries when the storm flag is true
\* and of three entries when it is false, in every state of the model and
\* for every coral.
C5_UpdateTupleShape ==
    IsUpdate =>
        /\ last.out.k = "ret"
        /\ Len(last.out.v) = (IF last.args[2] THEN 2 ELSE 3)

\* a storm update on a model that was never configured nor initiated, and a
\* calm one before it
C5_Witness ==
    /\ IsUpdate
    /\ last.args[2]
    /\ Len(last.out.v) = 2
    /\ bath = None
    /\ nInitiate = 0
    /\ nUpdate = 2

\* C7: initiate and update fail with a configuration error while bath, Hs
\* or Tp is unset.
C7_UnconfiguredCallsFail ==
    (last.recv = "Reef1D" /\ last.op \in {"initiate", "update"} /\ Unconfigured)
        => last.out = Raise("ConfigurationError")

\* C10: an update call changes no field of the model, and an update call
\* that follows an update call with the same arguments returns what that
\* call returned.
C10_UpdateRepeatable ==
    [][(nUpdate' = nUpdate + 1) =>
          /\ fields' = fields
          /\ (IsUpdate /\ last'.args = last.args) => last'.out = last.out]_vars

\* the second of two successive update calls with the same arguments
C10_Witness == IsUpdate /\ last.rep /\ nUpdate >= 2

----------------------------------------------------------------------------
(* Wave mechanics (SpecWave).                                              *)

\* the nodes of the profile whose depth is at most zero
DryNodes == {i \in 1..Len(bath.v) : bath.v[i] + water_level <= 0}

\* C3: at every node whose depth is at most zero, wave_length, wave_number
\* and group_celerity are exactly 0: reading them raises nothing and yields
\* no NaN and no Inf there.
C3_DryNodesZero ==
    (/\ last.op \in {"wave_length", "wave_number", "group_celerity"}
     /\ bath # None
     /\ Tp # None)
        => /\ last.out.k = "ret"
           /\ \A i \in DryNodes : last.out.v[i] = Num(0)

----------------------------------------------------------------------------
(* The model domain and the file members (SpecDomain).                     *)

\* C4: for a profile of n >= 1 nodes and a spacing dx > 0, x_coordinates
\* has n entries, entry i being i * dx (counted from 0), and xy_coordinates
\* has n entries as well.
C4_OnePositionPerNode ==
    (last.recv = "Reef1D" /\ bath # None /\ dx # None) =>
        /\ last.op = "x_coordinates" =>
              last.out = Ret(Some([i \in 1..Len(bath.v) |-> (i - 1) * dx.v]))
        /\ last.op = "xy_coordinates" =>
              Len(last.out.v.v) = Len(bath.v)

\* C6: reading config_file, definition_file or water_depth on a backend
\* that has not supplied the member (a Reef1D whose field is unset
\* included) fails with a not-implemented error.
C6_UnsetMemberNotImplemented ==
    (/\ last.op \in FileMembers
     /\ \/ last.recv = "HydrodynamicProtocol"
        \/ Reef1D_field(last.op) = Ret(None))
        => last.out = Raise("NotImplementedError")

\* C8 as stated: in every reachable state, before bath is set included,
\* space is the number of entries of bath.
C8_SpaceIsLenBath ==
    /\ space # None
    /\ bath # None
    /\ space.v = Len(bath.v)

\* C8, amended: while bath is set (after a reassignment included) space is
\* the number of entries of bath, and while bath is unset space is None;
\* a read of space returns just that.
C8_SpaceIsLenBathWhenSet ==
    /\ IF bath = None THEN space = None ELSE space = Some(Len(bath.v))
    /\ (last.recv = "Reef1D" /\ last.op = "space") =>
          last.out = Ret(IF bath = None THEN None ELSE Some(Len(bath.v)))

\* bath reassigned to a profile of another length, space following it
C8_Witness ==
    /\ last.op = "set_bath"
    /\ last.args[1] # None
    /\ bath # None
    /\ Len(last.args[1].v) # Len(bath.v)
    /\ space = Some(Len(bath.v))

\* C9: whenever x_coordinates is defined, xy_coordinates has as many
\* entries, entry i being the pair (x_coordinates[i], y_coordinates[0]),
\* and y_coordinates[0] is 0.
C9_XYPairsX ==
    x_coordinates # None =>
        /\ y_coordinates[1] = 0
        /\ xy_coordinates # None
        /\ Len(xy_coordinates.v) = Len(x_coordinates.v)
        /\ \A i \in 1..Len(x_coordinates.v) :
              xy_coordinates.v[i] = <<x_coordinates.v[i], 0>>
        /\ (last.recv = "Reef1D" /\ last.op = "xy_coordinates") =>
              /\ last.out.k = "ret"
              /\ last.out.v # None
              /\ Len(last.out.v.v) = Len(x_coordinates.v)
              /\ \A i \in 1..Len(x_coordinates.v) :
                    last.out.v.v[i] = <<x_coordinates.v[i], 0>>

\* xy_coordinates read on a domain of several positions
C9_Witness ==
    /\ last.op = "xy_coordinates"
    /\ x_coordinates # None
    /\ Len(x_coordinates.v) >= 2
    /\ last.out.v # None
    /\ Len(last.out.v.v) >= 2

====
